---------------------------- MODULE Spec2Model ----------------------------
(***************************************************************************)
(* DocxTranslator: the DOCX translation pipeline of services/docxHandler.ts *)
(* (load, paragraph extraction, chunking, sequential dispatch with retry    *)
(* and backoff, in-place reassembly, archive write-back).                   *)
(*                                                                          *)
(* Text.  A string is a sequence of tokens; a token stands for a fixed      *)
(* piece of text and CharLen gives its length in characters, so that        *)
(* String.length, String.includes and String.trim are computed on the       *)
(* sequence.  The tokens are: "a" a letter, "sp" a blank, "TOC" the three   *)
(* letters TOC, "bs" a backslash, "PAGEREF" that word, "K1000" a block of   *)
(* 1000 letters, "x" a letter of a translated text.                          *)
(*                                                                          *)
(* Tree.  The XML tree is [paras, leaves]: paras lists the w:p elements in  *)
(* document order, each with the index of the w:p enclosing it (0: none)    *)
(* and its own w:pPr; leaves lists the text-bearing elements (w:t and       *)
(* w:instrText) in document order, each with the innermost w:p holding it,  *)
(* its text and whether it carries xml:space="preserve".  Documents use     *)
(* the conventional prefix w: for the WordprocessingML namespace.           *)
(***************************************************************************)
EXTENDS Integers, Sequences, FiniteSets, TLC

VARIABLES
  apiKey,          \* process.env.API_KEY holds a key
  file,            \* the archive handed to load: [hasDoc, docXml, media]
  zip,             \* this.zip: null or [hasDoc, docXml, media]
  xmlDoc,          \* this.xmlDoc: null or the parsed tree
  paragraphNodes,  \* this.paragraphNodes: node numbers, in array order
  pc,              \* position of the load / processAndTranslate call
  itemsToTranslate,\* local of processAndTranslate
  chunks,          \* local of processAndTranslate
  processedChunks, \* local of processAndTranslate
  retries,         \* local of the batch loop
  batchSuccess,    \* local of the batch loop
  translationMap,  \* local Map<number,string>, in insertion order
  outstanding,     \* translateBatch calls issued and not yet settled
  calls,           \* per batch, the number of translateBatch calls made
  failures,        \* per batch, the number of those calls that rejected
  delays,          \* the backoff delays of the batch in progress: [ms, rateLimit]
  lastErrorMessage,\* e.message of the last rejected call of the batch in
                   \* progress, none once a call resolved
  progress,        \* the last onProgress(completed, total, ...) report
  thrown,          \* message of the error the call threw, or null
  applied,         \* whether applyTranslations has been entered
  writes,          \* the zip.file(name, data) calls made, in order
  blob,            \* the archive processAndTranslate returned, or null
  appState,        \* the App's appState
  inFlight         \* startTranslation calls that have not returned

vars == <<apiKey, file, zip, xmlDoc, paragraphNodes, pc, itemsToTranslate, chunks,
          processedChunks, retries, batchSuccess, translationMap,
          outstanding, calls, failures, delays, lastErrorMessage, progress,
          thrown, applied, writes, blob, appState, inFlight>>

\* null, for a field that holds an object
Null == [null |-> TRUE]

\* no error thrown
NoError == <<>>

(***************************************************************************)
(* Strings                                                                 *)
(***************************************************************************)
CharLen(tok) ==
  CASE tok = "K1000"   -> 1000
    [] tok = "PAGEREF" -> 7
    [] tok = "TOC"     -> 3
    [] OTHER           -> 1

RECURSIVE TextLen(_)
TextLen(text) ==
  IF text = <<>> THEN 0 ELSE CharLen(Head(text)) + TextLen(Tail(text))

Includes(text, pat) ==
  \E i \in 1..(Len(text) - Len(pat) + 1) :
     SubSeq(text, i, i + Len(pat) - 1) = pat

IsSpace(tok) == tok = "sp"

RECURSIVE TrimStart(_)
TrimStart(text) ==
  IF text # <<>> /\ IsSpace(Head(text)) THEN TrimStart(Tail(text)) ELSE text

RECURSIVE TrimEnd(_)
TrimEnd(text) ==
  IF text # <<>> /\ IsSpace(text[Len(text)])
  THEN TrimEnd(SubSeq(text, 1, Len(text) - 1))
  ELSE text

Trim(text) == TrimEnd(TrimStart(text))

RECURSIVE Concat(_)
Concat(texts) ==
  IF texts = <<>> THEN <<>> ELSE Head(texts) \o Concat(Tail(texts))

TocMarker == <<"TOC", "sp", "bs">>
PagerefMarker == <<"PAGEREF">>

(***************************************************************************)
(* The XML tree                                                            *)
(***************************************************************************)
NoPPr == "noPPr"          \* the w:p has no w:pPr child
NoStyle == "noStyle"      \* it has a w:pPr without a w:pStyle (or w:val)

\* q lies inside p, or is p (p, q paragraph numbers of tree d)
RECURSIVE InsideOrSelf(_, _, _)
InsideOrSelf(d, p, q) ==
  \/ q = p
  \/ q # 0 /\ d.paras[q].parent # 0 /\ InsideOrSelf(d, p, d.paras[q].parent)

\* the elements of s that satisfy Keep, in order
SelectIdx(n, Keep(_)) ==
  LET RECURSIVE go(_)
      go(i) == IF i > n THEN <<>>
               ELSE (IF Keep(i) THEN <<i>> ELSE <<>>) \o go(i + 1)
  IN go(1)

\* pNode.getElementsByTagName("w:t"): the w:t descendants, in document order
TextNodes(d, p) ==
  SelectIdx(Len(d.leaves),
            LAMBDA k : d.leaves[k].kind = "t" /\ InsideOrSelf(d, p, d.leaves[k].owner))

\* pNode.textContent: the text of every descendant, in document order
TextContent(d, p) ==
  LET ks == SelectIdx(Len(d.leaves),
                      LAMBDA k : InsideOrSelf(d, p, d.leaves[k].owner))
  IN Concat([j \in 1..Len(ks) |-> d.leaves[ks[j]].text])

\* A tree a parser can produce: paragraphs in preorder, leaves in document order.
WellFormed(d) ==
  LET n == Len(d.paras)
      m == Len(d.leaves)
      own(k) == d.leaves[k].owner
  IN /\ \A i \in 1..n :
          /\ d.paras[i].parent \in 0..(i - 1)
          /\ i > 1 /\ d.paras[i].parent # 0
               => InsideOrSelf(d, d.paras[i].parent, i - 1)
     /\ \A k \in 1..m : own(k) \in 1..n
     /\ \A j, k \in 1..m :
          j < k /\ own(j) # own(k)
            => \/ InsideOrSelf(d, own(j), own(k))
               \/ InsideOrSelf(d, own(k), own(j))
               \/ own(j) < own(k)
     /\ \A i, j, k \in 1..m :
          i < j /\ j < k /\ own(i) = own(k)
            => InsideOrSelf(d, own(i), own(j))

\* The shapes of trees with at most maxP paragraphs and maxL leaves: which w:p
\* encloses each w:p, and which w:p holds each leaf.
Shapes(maxP, maxL, Parents) ==
  LET PS == UNION {[1..n -> Parents] : n \in 0..maxP}
      OS(n) == UNION {[1..m -> 1..n] : m \in 0..maxL}
      Bare(ps, os) ==
        [paras |-> [i \in 1..Len(ps) |-> [parent |-> ps[i]]],
         leaves |-> [k \in 1..Len(os) |-> [owner |-> os[k]]]]
  IN {sh \in UNION {{Bare(ps, os) : os \in OS(Len(ps))} : ps \in PS} :
        WellFormed(sh)}

\* The tree of shape sh with w:pPr pp[i] for paragraph i and kind, text and
\* xml:space at[k] for leaf k.
TreeOf(sh, pp, at) ==
  [paras |-> [i \in 1..Len(sh.paras) |->
                [parent |-> sh.paras[i].parent, ppr |-> pp[i]]],
   leaves |-> [k \in 1..Len(sh.leaves) |->
                [owner |-> sh.leaves[k].owner, kind |-> at[k].kind,
                 text |-> at[k].text, preserve |-> at[k].preserve]]]

(***************************************************************************)
(* Extraction: getSafeText, shouldSkip, getExtractableParagraphs           *)
(***************************************************************************)
\* a variant of getSafeText that takes the whole text content of the paragraph
getSafeTextAllContent(d, p) == TextContent(d, p)

getSafeText(d, p) ==
  LET ks == TextNodes(d, p)
  IN Concat([j \in 1..Len(ks) |-> d.leaves[ks[j]].text])

\* a variant of shouldSkip that looks for the markers in the text runs only
shouldSkipVisibleOnly(d, p) ==
  LET content == getSafeText(d, p)
  IN Includes(content, TocMarker) \/ Includes(content, PagerefMarker)

\* a variant of shouldSkip that skips nothing
shouldSkipNever(d, p) == FALSE

shouldSkip(d, p) ==
  LET fullContent == TextContent(d, p)
  IN Includes(fullContent, TocMarker) \/ Includes(fullContent, PagerefMarker)

\* a variant of the .map(...) that numbers the items from 1
MappedItemsOneBased(d, pn) ==
  [i \in 1..Len(pn) |->
     IF shouldSkip(d, pn[i]) THEN [id |-> i, text |-> <<>>]
     ELSE [id |-> i, text |-> getSafeText(d, pn[i])]]

\* the .map(...) of getExtractableParagraphs: one item per array slot
MappedItems(d, pn) ==
  [i \in 1..Len(pn) |->
     IF shouldSkip(d, pn[i]) THEN [id |-> i - 1, text |-> <<>>]
     ELSE [id |-> i - 1, text |-> getSafeText(d, pn[i])]]

KeepItem(item) == Len(Trim(item.text)) > 0

getExtractableParagraphs(d, pn) ==
  LET mapped == MappedItems(d, pn)
      ks == SelectIdx(Len(mapped), LAMBDA i : KeepItem(mapped[i]))
  IN [j \in 1..Len(ks) |-> mapped[ks[j]]]

(***************************************************************************)
(* Chunking: isHeading, createChunks                                       *)
(***************************************************************************)
\* /heading|title|subtitle|chapter|part/i.test(val), on the style names used
HeadingPattern(val) == val \in {"Heading1", "Title", "Subtitle", "Chapter", "Part"}

\* node.getElementsByTagName("w:pPr")[0]: the first w:pPr below the node, its
\* own when it has one (w:pPr is the first child of a w:p), else that of the
\* first w:p nested in it that has one
FirstPPr(d, p) ==
  LET qs == SelectIdx(Len(d.paras),
                      LAMBDA q : InsideOrSelf(d, p, q) /\ d.paras[q].ppr # NoPPr)
  IN IF qs = <<>> THEN NoPPr ELSE d.paras[qs[1]].ppr

isHeading(d, pn, index) ==
  IF index + 1 \notin DOMAIN pn THEN FALSE
  ELSE LET val == FirstPPr(d, pn[index + 1])
       IN IF val \in {NoPPr, NoStyle} THEN FALSE ELSE HeadingPattern(val)

TARGET_CHUNK_SIZE == 3000

\* a variant of the break test with a target of 1000 characters
ShouldBreakAt1000(currentChunk, currentChunkLen, isHeader) ==
  Len(currentChunk) > 0 /\ (isHeader \/ currentChunkLen >= 1000)

\* a variant of the break test that does not look at the current chunk
ShouldBreakUnguarded(currentChunk, currentChunkLen, isHeader) ==
  isHeader \/ currentChunkLen >= TARGET_CHUNK_SIZE

\* a variant of the break test that does not look at headings
ShouldBreakSizeOnly(currentChunk, currentChunkLen, isHeader) ==
  Len(currentChunk) > 0 /\ currentChunkLen >= TARGET_CHUNK_SIZE

\* a variant of the break test that breaks once the target is exceeded
ShouldBreakStrictlyOver(currentChunk, currentChunkLen, isHeader) ==
  Len(currentChunk) > 0 /\ (isHeader \/ currentChunkLen > TARGET_CHUNK_SIZE)

\* the break test of createChunks, before an item is pushed
ShouldBreak(currentChunk, currentChunkLen, isHeader) ==
  Len(currentChunk) > 0 /\ (isHeader \/ currentChunkLen >= TARGET_CHUNK_SIZE)

RECURSIVE ChunkLoop(_, _, _, _, _, _, _)
ChunkLoop(d, pn, items, i, acc, currentChunk, currentChunkLen) ==
  IF i > Len(items)
  THEN IF Len(currentChunk) > 0 THEN Append(acc, currentChunk) ELSE acc
  ELSE LET item == items[i]
           isHeader == isHeading(d, pn, item.id)
       IN IF ShouldBreak(currentChunk, currentChunkLen, isHeader)
          THEN ChunkLoop(d, pn, items, i + 1, Append(acc, currentChunk),
                         <<item>>, TextLen(item.text))
          ELSE ChunkLoop(d, pn, items, i + 1, acc,
                         Append(currentChunk, item),
                         currentChunkLen + TextLen(item.text))

\* a variant of createChunks without the push of the last chunk after the loop
createChunksNoFlush(d, pn, items) ==
  LET all == ChunkLoop(d, pn, items, 1, <<>>, <<>>, 0)
  IN SubSeq(all, 1, Len(all) - 1)

\* a variant of createChunks that pushes the last chunk even when it is empty
createChunksAlwaysFlush(d, pn, items) ==
  LET RECURSIVE loop(_, _, _, _)
      loop(i, acc, currentChunk, currentChunkLen) ==
        IF i > Len(items) THEN Append(acc, currentChunk)
        ELSE LET item == items[i]
                 isHeader == isHeading(d, pn, item.id)
             IN IF ShouldBreak(currentChunk, currentChunkLen, isHeader)
                THEN loop(i + 1, Append(acc, currentChunk), <<item>>,
                          TextLen(item.text))
                ELSE loop(i + 1, acc, Append(currentChunk, item),
                          currentChunkLen + TextLen(item.text))
  IN loop(1, <<>>, <<>>, 0)

createChunks(d, pn, items) == ChunkLoop(d, pn, items, 1, <<>>, <<>>, 0)

(***************************************************************************)
(* The translation backend's answer and parseResponse                      *)
(***************************************************************************)
\* translated_text absent from an entry of the answer
Undefined == <<"undefined">>

\* Map.prototype.set on a map kept in insertion order: a present key keeps its
\* place and takes the new value, a new key is appended
MapSet(m, key, val) ==
  IF \E j \in 1..Len(m) : m[j].key = key
  THEN [j \in 1..Len(m) |-> IF m[j].key = key THEN [key |-> key, val |-> val] ELSE m[j]]
  ELSE Append(m, [key |-> key, val |-> val])

MapHas(m, key) == \E j \in 1..Len(m) : m[j].key = key

MapGet(m, key) == m[CHOOSE j \in 1..Len(m) : m[j].key = key].val

\* parseResponse on a well-formed answer: parsed.translations.forEach(...)
RECURSIVE parseResponse(_)
parseResponse(translations) ==
  IF translations = <<>> THEN <<>>
  ELSE LET t == translations[Len(translations)]
           rest == parseResponse(SubSeq(translations, 1, Len(translations) - 1))
       IN IF t.translated_text # Undefined
          THEN MapSet(rest, t.id, t.translated_text)
          ELSE rest

\* results.forEach((val, key) => translationMap.set(key, val))
RECURSIVE MergeResults(_, _)
MergeResults(tmap, results) ==
  IF results = <<>> THEN tmap
  ELSE MergeResults(MapSet(tmap, Head(results).key, Head(results).val), Tail(results))

(***************************************************************************)
(* Reassembly: applyTranslations                                           *)
(***************************************************************************)
\* a variant of the callback body that takes every text-bearing descendant,
\* field instructions included, for a text run
RewriteAllLeaves(d, p, translatedText) ==
  LET nodes == SelectIdx(Len(d.leaves),
                         LAMBDA k : InsideOrSelf(d, p, d.leaves[k].owner))
  IN IF Len(nodes) > 0
     THEN [d EXCEPT !.leaves =
             [k \in 1..Len(d.leaves) |->
                IF k = nodes[1]
                THEN [d.leaves[k] EXCEPT !.text = translatedText, !.preserve = TRUE]
                ELSE IF \E j \in 2..Len(nodes) : nodes[j] = k
                THEN [d.leaves[k] EXCEPT !.text = <<>>]
                ELSE d.leaves[k]]]
     ELSE d

\* the body of the forEach callback for one entry whose text is not empty and
\* whose paragraph node is p
RewriteRuns(d, p, translatedText) ==
  LET textNodes == TextNodes(d, p)
  IN IF Len(textNodes) > 0
     THEN [d EXCEPT !.leaves =
             [k \in 1..Len(d.leaves) |->
                IF k = textNodes[1]
                THEN [d.leaves[k] EXCEPT !.text = translatedText, !.preserve = TRUE]
                ELSE IF \E j \in 2..Len(textNodes) : textNodes[j] = k
                THEN [d.leaves[k] EXCEPT !.text = <<>>]
                ELSE d.leaves[k]]]
     ELSE d

\* a variant of the forEach without the early return on an empty text
RECURSIVE ApplyLoopNoEmptyCheck(_, _, _, _)
ApplyLoopNoEmptyCheck(d, pn, tmap, j) ==
  IF j > Len(tmap) THEN [doc |-> d, threw |-> FALSE]
  ELSE LET translatedText == tmap[j].val
           index == tmap[j].key
       IN IF index + 1 \notin DOMAIN pn THEN [doc |-> d, threw |-> TRUE]
          ELSE ApplyLoopNoEmptyCheck(RewriteRuns(d, pn[index + 1], translatedText),
                                     pn, tmap, j + 1)

\* translationMap.forEach(...): the tree after it, and whether the callback
\* threw (paragraphNodes[index] undefined, then .getElementsByTagName on it)
RECURSIVE ApplyLoop(_, _, _, _)
ApplyLoop(d, pn, tmap, j) ==
  IF j > Len(tmap) THEN [doc |-> d, threw |-> FALSE]
  ELSE LET translatedText == tmap[j].val
           index == tmap[j].key
       IN IF translatedText = <<>> THEN ApplyLoop(d, pn, tmap, j + 1)
          ELSE IF index + 1 \notin DOMAIN pn THEN [doc |-> d, threw |-> TRUE]
          ELSE ApplyLoop(RewriteRuns(d, pn[index + 1], translatedText), pn, tmap, j + 1)

applyTranslations(d, pn, tmap) == ApplyLoop(d, pn, tmap, 1)

(***************************************************************************)
(* Retry policy of processAndTranslate                                     *)
(***************************************************************************)
MAX_RETRIES == 5

RECURSIVE Pow2(_)
Pow2(n) == IF n = 0 THEN 1 ELSE 2 * Pow2(n - 1)

\* a variant of isRateLimit that takes every error for a rate limit
isRateLimitAnyError(errorMessage) == TRUE

isRateLimit(errorMessage) ==
  Includes(errorMessage, <<"429">>) \/ Includes(errorMessage, <<"RESOURCE_EXHAUSTED">>)

\* a variant of waitTime with the exponent and the factor counted down
waitTimeShrinking(errorMessage, r) ==
  IF isRateLimit(errorMessage) THEN 5000 * Pow2(MAX_RETRIES - r)
  ELSE 2000 * (MAX_RETRIES - r)

\* a variant of waitTime that grows by 5000 ms a retry for rate limits
waitTimeLinearBoth(errorMessage, r) ==
  IF isRateLimit(errorMessage) THEN 5000 * r ELSE 2000 * r

\* a variant of waitTime with the same 2000 ms a retry for every error
waitTimeUniform(errorMessage, r) == 2000 * r

waitTime(errorMessage, r) ==
  IF isRateLimit(errorMessage) THEN 5000 * Pow2(r - 1) ELSE 2000 * r

\* the message of the error parseResponse throws when the response text does
\* not parse (JSON.parse throws, or the parsed value is null)
ParseFailureMessage ==
  <<"The AI returned an invalid JSON response. Please try again.">>

\* messages of the errors translateBatch rejects with
ErrorMessages ==
  { <<"API Error:", "429">>,
    <<"RESOURCE_EXHAUSTED">>,
    <<"Failed to fetch">> } \cup {ParseFailureMessage}

TerminalMessage(errorMessage) ==
  <<"Failed to translate batch after 5 attempts. Error:">> \o errorMessage

(***************************************************************************)
(* Bounds of the model                                                     *)
(***************************************************************************)
MaxParas == 2      \* w:p elements of a document
MaxLeaves == 2     \* w:t and w:instrText elements of a document
MaxAnswer == 1     \* entries of the translations array of one answer

ExtractMaxParas == 2   \* w:p elements of a document, extraction runs
ExtractMaxLeaves == 2  \* w:t and w:instrText elements, extraction runs
ChunkMaxParas == 3     \* w:p elements of a document, chunking runs
ChunkMaxLeaves == 3    \* w:t elements of a document, chunking runs
AppMaxParas == 1       \* w:p elements of a document, App runs
AppMaxLeaves == 1      \* w:t elements of a document, App runs

TransTexts == { <<>>, <<"x">> }

\* the translations arrays a backend may answer with; id n indexes no paragraph
Answers(n) ==
  UNION {[1..m -> [id : 0..n, translated_text : TransTexts \cup {Undefined}]] :
           m \in 0..MaxAnswer}

NoDocumentPart == [hasDoc |-> FALSE, docXml |-> Null, media |-> "media"]

Archive(d) == [hasDoc |-> TRUE, docXml |-> d, media |-> "media"]

\* documents for the extraction runs: blanks, field markers whole and in
\* pieces, in text runs and in field instructions
ExtractTexts ==
  { <<>>, <<"a">>, <<"sp">>, <<"TOC">>, <<"sp", "bs">>, <<"PAGEREF">>,
    <<"TOC", "sp", "bs">> }

\* documents for the chunking runs: short and long paragraphs
ChunkTexts ==
  { <<"a">>, <<"K1000">>, <<"K1000", "K1000", "K1000">> }

(***************************************************************************)
(* State machine                                                           *)
(***************************************************************************)
\* the handler as constructed, before load
Constructed ==
  /\ zip = Null
  /\ xmlDoc = Null
  /\ paragraphNodes = <<>>
  /\ pc = "idle"
  /\ itemsToTranslate = <<>>
  /\ chunks = <<>>
  /\ processedChunks = 0
  /\ retries = 0
  /\ batchSuccess = FALSE
  /\ translationMap = <<>>
  /\ outstanding = {}
  /\ calls = <<>>
  /\ failures = <<>>
  /\ delays = <<>>
  /\ lastErrorMessage = NoError
  /\ progress = Null
  /\ thrown = NoError
  /\ applied = FALSE
  /\ writes = <<>>
  /\ blob = Null

\* the environment holds an API key (getSystemApiKey returns it)
KeyConfigured == apiKey = TRUE

\* startTranslation has been called for the file and awaits load
CycleStarted ==
  /\ appState = "PARSING"
  /\ inFlight = 1

\* the file is an archive whose document part is a tree of at most maxP
\* paragraphs and maxL leaves, with every choice of w:pPr for a paragraph and
\* of kind, text and xml:space for a leaf
FileIsTree(maxP, maxL, Texts, PPrs, Parents, Kinds, Preserves) ==
  \E sh \in Shapes(maxP, maxL, Parents) :
     \E pp \in [1..Len(sh.paras) -> PPrs],
        at \in [1..Len(sh.leaves) ->
                  [kind : Kinds, text : Texts, preserve : Preserves]] :
        file = Archive(TreeOf(sh, pp, at))

\* Array.from(pCollection): the w:p elements of the tree, in document order
ParagraphCollection(d) == [i \in 1..Len(d.paras) |-> i]

\* a variant of load that returns normally when the document part is missing
LoadIgnoringMissingPart ==
  /\ pc = "idle"
  /\ appState = "PARSING"
  /\ zip' = file
  /\ IF ~file.hasDoc
     THEN UNCHANGED <<xmlDoc, paragraphNodes>>
     ELSE /\ xmlDoc' = file.docXml
          /\ paragraphNodes' = ParagraphCollection(file.docXml)
  /\ pc' = "loaded"
  /\ UNCHANGED <<apiKey, file, itemsToTranslate, chunks, processedChunks, retries,
                 batchSuccess, translationMap, outstanding, calls, failures,
                 delays, lastErrorMessage, progress, thrown, applied, writes,
                 blob, appState, inFlight>>

\* load(file)
Load ==
  /\ pc = "idle"
  /\ appState = "PARSING"
  /\ zip' = file
  /\ IF ~file.hasDoc
     THEN /\ thrown' = <<"Could not find word/document.xml in the package.">>
          /\ pc' = "loadFailed"
          /\ appState' = "ERROR"
          /\ inFlight' = inFlight - 1
          /\ UNCHANGED <<xmlDoc, paragraphNodes>>
     ELSE /\ xmlDoc' = file.docXml
          /\ paragraphNodes' = ParagraphCollection(file.docXml)
          /\ pc' = "loaded"
          /\ UNCHANGED <<thrown, appState, inFlight>>
  /\ UNCHANGED <<apiKey, file, itemsToTranslate, chunks, processedChunks, retries,
                 batchSuccess, translationMap, outstanding, calls, failures,
                 delays, lastErrorMessage, progress, applied, writes, blob>>

\* the calls outstanding once translateBatch is called for batch k
Issue(out, k, attempt) == out \cup {[batch |-> k, attempt |-> attempt]}

\* a variant of Settle for a call that is not awaited
SettleNothing(out) == out

\* the calls outstanding once the awaited call has settled
Settle(out) == {}

\* the top of the for loop body for batch k, up to the first translateBatch call
EnterBatch(k, total, callsBefore) ==
  /\ processedChunks' = k
  /\ progress' = [completed |-> k, total |-> total]
  /\ retries' = 0
  /\ batchSuccess' = FALSE
  /\ delays' = <<>>
  /\ outstanding' = Issue(outstanding, k, 1)
  /\ calls' = [callsBefore EXCEPT ![k] = @ + 1]
  /\ pc' = "awaiting"
  /\ appState' = "TRANSLATING"
  /\ UNCHANGED <<xmlDoc, zip, writes, thrown, applied, inFlight>>

\* a variant of the reassembly that rewrites the other entries of the archive
\* as well
ReassembleAllEntries(tmap, total) ==
  LET r == applyTranslations(xmlDoc, paragraphNodes, tmap)
  IN /\ progress' = [completed |-> total, total |-> total]
     /\ applied' = TRUE
     /\ delays' = <<>>
     /\ xmlDoc' = r.doc
     /\ IF r.threw
        THEN /\ thrown' = <<"TypeError">>
             /\ pc' = "failed"
             /\ appState' = "ERROR"
             /\ inFlight' = inFlight - 1
             /\ UNCHANGED <<zip, writes>>
        ELSE /\ zip' = [hasDoc |-> TRUE, docXml |-> r.doc, media |-> "rewritten"]
             /\ writes' = writes \o <<"word/document.xml", "word/media">>
             /\ pc' = "generating"
             /\ appState' = "TRANSLATING"
             /\ UNCHANGED <<thrown, inFlight>>

\* after the for loop: applyTranslations, serialize, zip.file, generateAsync
Reassemble(tmap, total) ==
  LET r == applyTranslations(xmlDoc, paragraphNodes, tmap)
  IN /\ progress' = [completed |-> total, total |-> total]
     /\ applied' = TRUE
     /\ delays' = <<>>
     /\ xmlDoc' = r.doc
     /\ IF r.threw
        THEN /\ thrown' = <<"TypeError">>
             /\ pc' = "failed"
             /\ appState' = "ERROR"
             /\ inFlight' = inFlight - 1
             /\ UNCHANGED <<zip, writes>>
        ELSE /\ zip' = [zip EXCEPT !.hasDoc = TRUE, !.docXml = r.doc]
             /\ writes' = Append(writes, "word/document.xml")
             /\ pc' = "generating"
             /\ appState' = "TRANSLATING"
             /\ UNCHANGED <<thrown, inFlight>>

\* processAndTranslate, from its entry to its first await
ProcessStart ==
  /\ pc = "loaded"
  /\ LET items == getExtractableParagraphs(xmlDoc, paragraphNodes)
         cs == createChunks(xmlDoc, paragraphNodes, items)
     IN /\ itemsToTranslate' = items
        /\ chunks' = cs
        /\ translationMap' = <<>>
        /\ IF Len(cs) = 0
           THEN /\ Reassemble(<<>>, 0)
                /\ calls' = <<>>
                /\ failures' = <<>>
                /\ UNCHANGED <<processedChunks, retries, batchSuccess,
                               outstanding>>
           ELSE /\ EnterBatch(1, Len(cs), [k \in 1..Len(cs) |-> 0])
                /\ failures' = [k \in 1..Len(cs) |-> 0]
  /\ UNCHANGED <<apiKey, file, paragraphNodes, lastErrorMessage, blob>>

\* the awaited translateBatch resolves
TranslateOk ==
  /\ pc = "awaiting"
  /\ \E translations \in Answers(Len(paragraphNodes)) :
        translationMap' = MergeResults(translationMap, parseResponse(translations))
  /\ batchSuccess' = TRUE
  /\ outstanding' = Settle(outstanding)
  /\ lastErrorMessage' = NoError
  /\ pc' = "pause"
  /\ UNCHANGED <<apiKey, file, zip, xmlDoc, paragraphNodes, itemsToTranslate, chunks,
                 processedChunks, retries, calls, failures, delays, progress,
                 thrown, applied, writes, blob, appState, inFlight>>

\* a variant of the catch block that does not throw when the attempts are
\* used up: the while loop ends and the for loop goes on
TranslateFailNoThrow ==
  /\ pc = "awaiting"
  /\ \E errorMessage \in ErrorMessages :
        /\ retries' = retries + 1
        /\ lastErrorMessage' = errorMessage
        /\ IF retries' >= MAX_RETRIES
           THEN IF processedChunks < Len(chunks)
                THEN /\ processedChunks' = processedChunks + 1
                     /\ progress' = [completed |-> processedChunks + 1,
                                     total |-> Len(chunks)]
                     /\ delays' = <<>>
                     /\ outstanding' = {[batch |-> processedChunks + 1, attempt |-> 1]}
                     /\ calls' = [calls EXCEPT ![processedChunks + 1] = @ + 1]
                     /\ pc' = "awaiting"
                     /\ UNCHANGED <<xmlDoc, zip, writes, thrown, applied,
                                    appState, inFlight>>
                ELSE /\ Reassemble(translationMap, Len(chunks))
                     /\ outstanding' = {}
                     /\ UNCHANGED <<processedChunks, calls>>
           ELSE /\ progress' = [completed |-> processedChunks, total |-> Len(chunks)]
                /\ delays' = Append(delays,
                                    [ms |-> waitTime(errorMessage, retries'),
                                     rateLimit |-> isRateLimit(errorMessage)])
                /\ pc' = "backoff"
                /\ outstanding' = {}
                /\ UNCHANGED <<processedChunks, calls, xmlDoc, zip, writes,
                               thrown, applied, appState, inFlight>>
  /\ failures' = [failures EXCEPT ![processedChunks] = @ + 1]
  /\ UNCHANGED <<apiKey, file, paragraphNodes, itemsToTranslate, chunks, batchSuccess,
                 translationMap, blob>>

\* a variant of the catch block whose terminal error carries the message of
\* the attempt before the last
TranslateFailStaleMessage ==
  /\ pc = "awaiting"
  /\ \E errorMessage \in ErrorMessages :
        /\ retries' = retries + 1
        /\ lastErrorMessage' = errorMessage
        /\ IF retries' >= MAX_RETRIES
           THEN /\ thrown' = TerminalMessage(lastErrorMessage)
                /\ pc' = "failed"
                /\ appState' = "ERROR"
                /\ inFlight' = inFlight - 1
                /\ UNCHANGED <<delays, progress>>
           ELSE /\ progress' = [completed |-> processedChunks, total |-> Len(chunks)]
                /\ delays' = Append(delays,
                                    [ms |-> waitTime(errorMessage, retries'),
                                     rateLimit |-> isRateLimit(errorMessage)])
                /\ pc' = "backoff"
                /\ UNCHANGED <<thrown, appState, inFlight>>
  /\ outstanding' = Settle(outstanding)
  /\ failures' = [failures EXCEPT ![processedChunks] = @ + 1]
  /\ UNCHANGED <<apiKey, file, zip, xmlDoc, paragraphNodes, itemsToTranslate, chunks,
                 processedChunks, batchSuccess, translationMap, calls, applied,
                 writes, blob>>

\* a variant of the catch block that does not count the failed attempt
TranslateFailUncounted ==
  /\ pc = "awaiting"
  /\ \E errorMessage \in ErrorMessages :
        /\ lastErrorMessage' = errorMessage
        /\ progress' = [completed |-> processedChunks, total |-> Len(chunks)]
        /\ delays' = <<[ms |-> waitTime(errorMessage, 1),
                        rateLimit |-> isRateLimit(errorMessage)]>>
        /\ pc' = "backoff"
  /\ outstanding' = Settle(outstanding)
  /\ UNCHANGED <<apiKey, file, zip, xmlDoc, paragraphNodes, itemsToTranslate, chunks,
                 processedChunks, retries, batchSuccess, translationMap, calls,
                 failures, thrown, applied, writes, blob, appState, inFlight>>

\* the awaited translateBatch rejects: the catch block
TranslateFail ==
  /\ pc = "awaiting"
  /\ \E errorMessage \in ErrorMessages :
        /\ retries' = retries + 1
        /\ lastErrorMessage' = errorMessage
        /\ IF retries' >= MAX_RETRIES
           THEN /\ thrown' = TerminalMessage(errorMessage)
                /\ pc' = "failed"
                /\ appState' = "ERROR"
                /\ inFlight' = inFlight - 1
                /\ UNCHANGED <<delays, progress>>
           ELSE /\ progress' = [completed |-> processedChunks, total |-> Len(chunks)]
                /\ delays' = Append(delays,
                                    [ms |-> waitTime(errorMessage, retries'),
                                     rateLimit |-> isRateLimit(errorMessage)])
                /\ pc' = "backoff"
                /\ UNCHANGED <<thrown, appState, inFlight>>
  /\ outstanding' = Settle(outstanding)
  /\ failures' = [failures EXCEPT ![processedChunks] = @ + 1]
  /\ UNCHANGED <<apiKey, file, zip, xmlDoc, paragraphNodes, itemsToTranslate, chunks,
                 processedChunks, batchSuccess, translationMap, calls, applied,
                 writes, blob>>

\* the backoff delay ends: the while test holds, translateBatch is called again
BackoffDone ==
  /\ pc = "backoff"
  /\ retries < MAX_RETRIES /\ ~batchSuccess
  /\ outstanding' = Issue(outstanding, processedChunks, retries + 1)
  /\ calls' = [calls EXCEPT ![processedChunks] = @ + 1]
  /\ pc' = "awaiting"
  /\ UNCHANGED <<apiKey, file, zip, xmlDoc, paragraphNodes, itemsToTranslate, chunks,
                 processedChunks, retries, batchSuccess, translationMap,
                 failures, delays, lastErrorMessage, progress, thrown, applied,
                 writes, blob, appState, inFlight>>

\* a variant of the end of the pause whose while test does not look at
\* batchSuccess: the batch is sent once more until the attempts are used up
PauseDoneRetryAfterSuccess ==
  /\ pc = "pause"
  /\ batchSuccess
  /\ IF calls[processedChunks] < MAX_RETRIES
     THEN /\ outstanding' = Issue(outstanding, processedChunks,
                                  calls[processedChunks] + 1)
          /\ calls' = [calls EXCEPT ![processedChunks] = @ + 1]
          /\ pc' = "awaiting"
          /\ UNCHANGED <<processedChunks, retries, batchSuccess, delays,
                         progress, xmlDoc, zip, writes, thrown, applied,
                         appState, inFlight>>
     ELSE IF processedChunks < Len(chunks)
     THEN EnterBatch(processedChunks + 1, Len(chunks), calls)
     ELSE /\ Reassemble(translationMap, Len(chunks))
          /\ UNCHANGED <<processedChunks, retries, batchSuccess, outstanding,
                         calls>>
  /\ UNCHANGED <<apiKey, file, paragraphNodes, itemsToTranslate, chunks, translationMap,
                 failures, lastErrorMessage, blob>>

\* the pause after a success ends: the while loop exits, the for loop goes on
PauseDone ==
  /\ pc = "pause"
  /\ batchSuccess
  /\ IF processedChunks < Len(chunks)
     THEN EnterBatch(processedChunks + 1, Len(chunks), calls)
     ELSE /\ Reassemble(translationMap, Len(chunks))
          /\ UNCHANGED <<processedChunks, retries, batchSuccess, outstanding,
                         calls>>
  /\ UNCHANGED <<apiKey, file, paragraphNodes, itemsToTranslate, chunks, translationMap,
                 failures, lastErrorMessage, blob>>

\* zip.generateAsync resolves: processAndTranslate returns the archive
GenerateDone ==
  /\ pc = "generating"
  /\ blob' = zip
  /\ pc' = "done"
  /\ appState' = "COMPLETED"
  /\ inFlight' = inFlight - 1
  /\ UNCHANGED <<apiKey, file, zip, xmlDoc, paragraphNodes, itemsToTranslate, chunks,
                 processedChunks, retries, batchSuccess, translationMap,
                 outstanding, calls, failures, delays, lastErrorMessage, progress,
                 thrown, applied, writes>>

\* an archive without the document part, or a document of paragraphs, nested
\* or not, with text runs and field instructions
Init ==
  /\ \/ file = NoDocumentPart
     \/ FileIsTree(MaxParas, MaxLeaves, {<<"a">>}, {NoPPr, "Heading1"},
                   0..(MaxParas - 1), {"t", "instr"}, {FALSE})
  /\ Constructed
  /\ KeyConfigured
  /\ CycleStarted

Next ==
  \/ Load
  \/ ProcessStart
  \/ TranslateOk
  \/ TranslateFail
  \/ BackoffDone
  \/ PauseDone
  \/ GenerateDone

Spec == Init /\ [][Next]_vars

\* plain documents: paragraphs side by side, text runs only
InitPlain ==
  /\ FileIsTree(MaxParas, MaxLeaves, {<<"a">>}, {NoPPr, "Heading1"},
                {0}, {"t"}, {FALSE})
  /\ Constructed
  /\ KeyConfigured
  /\ CycleStarted

\* every translateBatch call settles, every delay ends and generateAsync
\* settles
SpecFair ==
  /\ InitPlain
  /\ [][Next]_vars
  /\ WF_vars(TranslateOk \/ TranslateFail)
  /\ WF_vars(BackoffDone)
  /\ WF_vars(PauseDone)
  /\ WF_vars(GenerateDone)

\* load and the synchronous head of processAndTranslate (extraction, chunking),
\* over documents rich in text and in paragraphs
NextFront ==
  \/ Load
  \/ ProcessStart

InitExtract ==
  /\ FileIsTree(ExtractMaxParas, ExtractMaxLeaves, ExtractTexts, {NoPPr},
                0..(ExtractMaxParas - 1), {"t", "instr"}, {FALSE})
  /\ Constructed
  /\ KeyConfigured
  /\ CycleStarted

SpecExtract == InitExtract /\ [][NextFront]_vars

InitChunk ==
  /\ FileIsTree(ChunkMaxParas, ChunkMaxLeaves, ChunkTexts, {"Normal", "Heading1"},
                {0}, {"t"}, {FALSE})
  /\ Constructed
  /\ KeyConfigured
  /\ CycleStarted

SpecChunk == InitChunk /\ [][NextFront]_vars

\* the document of the worked example: paragraph 0 a heading "Chapter 1",
\* paragraphs 1 to 3 bodies of 1000 characters, paragraph 4 a table-of-contents
\* field with its instruction and a visible entry
ScenarioDocument ==
  [paras |-> <<[parent |-> 0, ppr |-> "Heading1"],
               [parent |-> 0, ppr |-> "Normal"],
               [parent |-> 0, ppr |-> "Normal"],
               [parent |-> 0, ppr |-> "Normal"],
               [parent |-> 0, ppr |-> "Normal"]>>,
   leaves |-> <<[owner |-> 1, kind |-> "t", preserve |-> FALSE,
                 text |-> <<"a", "a", "a", "a", "a", "a", "a", "sp", "a">>],
                [owner |-> 2, kind |-> "t", preserve |-> FALSE, text |-> <<"K1000">>],
                [owner |-> 3, kind |-> "t", preserve |-> FALSE, text |-> <<"K1000">>],
                [owner |-> 4, kind |-> "t", preserve |-> FALSE, text |-> <<"K1000">>],
                [owner |-> 5, kind |-> "instr", preserve |-> FALSE,
                 text |-> <<"TOC", "sp", "bs">>],
                [owner |-> 5, kind |-> "t", preserve |-> FALSE, text |-> <<"a">>]>>]

InitScenario ==
  /\ file = Archive(ScenarioDocument)
  /\ Constructed
  /\ KeyConfigured
  /\ CycleStarted

SpecScenario == InitScenario /\ [][Next]_vars

(***************************************************************************)
(* The App: file selection, start button, reset                            *)
(***************************************************************************)
\* handleFileChange with a .docx file; the input is disabled while the state
\* is PARSING or TRANSLATING
SelectFile ==
  /\ appState \notin {"PARSING", "TRANSLATING"}
  /\ \/ file' = NoDocumentPart
     \/ \E sh \in Shapes(AppMaxParas, AppMaxLeaves, {0}) :
           \E pp \in [1..Len(sh.paras) -> {NoPPr, "Heading1"}],
              at \in [1..Len(sh.leaves) ->
                        [kind : {"t"}, text : {<<"a">>}, preserve : {FALSE}]] :
              file' = Archive(TreeOf(sh, pp, at))
  /\ appState' = "IDLE"
  /\ blob' = Null
  /\ UNCHANGED <<apiKey, zip, xmlDoc, paragraphNodes, pc, itemsToTranslate, chunks,
                 processedChunks, retries, batchSuccess, translationMap,
                 outstanding, calls, failures, delays, lastErrorMessage,
                 progress, thrown, applied, writes, inFlight>>

\* a variant of the start button that is shown whatever the state
StartTranslationAnyState ==
  /\ file # Null
  /\ appState' = "PARSING"
  /\ inFlight' = inFlight + 1
  /\ progress' = [completed |-> 0, total |-> 0]
  /\ pc' = "idle"
  /\ itemsToTranslate' = <<>>
  /\ chunks' = <<>>
  /\ processedChunks' = 0
  /\ retries' = 0
  /\ batchSuccess' = FALSE
  /\ translationMap' = <<>>
  /\ outstanding' = {}
  /\ calls' = <<>>
  /\ failures' = <<>>
  /\ delays' = <<>>
  /\ lastErrorMessage' = NoError
  /\ thrown' = NoError
  /\ applied' = FALSE
  /\ writes' = <<>>
  /\ UNCHANGED <<apiKey, file, zip, xmlDoc, paragraphNodes, blob>>

\* the start button, shown in state IDLE with a file selected, is clicked:
\* startTranslation up to its first await; the locals of the call that follows
\* start afresh, the handler keeps what it holds
StartTranslation ==
  /\ appState = "IDLE"
  /\ file # Null
  /\ appState' = "PARSING"
  /\ inFlight' = inFlight + 1
  /\ progress' = [completed |-> 0, total |-> 0]
  /\ pc' = "idle"
  /\ itemsToTranslate' = <<>>
  /\ chunks' = <<>>
  /\ processedChunks' = 0
  /\ retries' = 0
  /\ batchSuccess' = FALSE
  /\ translationMap' = <<>>
  /\ outstanding' = {}
  /\ calls' = <<>>
  /\ failures' = <<>>
  /\ delays' = <<>>
  /\ lastErrorMessage' = NoError
  /\ thrown' = NoError
  /\ applied' = FALSE
  /\ writes' = <<>>
  /\ UNCHANGED <<apiKey, file, zip, xmlDoc, paragraphNodes, blob>>

\* the Reset button, shown in state COMPLETED
ResetApp ==
  /\ appState = "COMPLETED"
  /\ file' = Null
  /\ appState' = "IDLE"
  /\ blob' = Null
  /\ UNCHANGED <<apiKey, zip, xmlDoc, paragraphNodes, pc, itemsToTranslate, chunks,
                 processedChunks, retries, batchSuccess, translationMap,
                 outstanding, calls, failures, delays, lastErrorMessage,
                 progress, thrown, applied, writes, inFlight>>

\* the App as mounted: no file, state IDLE, a handler just constructed
InitApp ==
  /\ file = Null
  /\ Constructed
  /\ KeyConfigured
  /\ appState = "IDLE"
  /\ inFlight = 0

NextApp ==
  \/ SelectFile
  \/ StartTranslation
  \/ ResetApp
  \/ Load
  \/ ProcessStart
  \/ TranslateOk
  \/ TranslateFail
  \/ BackoffDone
  \/ PauseDone
  \/ GenerateDone

SpecApp == InitApp /\ [][NextApp]_vars

(***************************************************************************)
(* Properties                                                              *)
(***************************************************************************)
\* the tree as load parsed it
Loaded == file.docXml

\* processAndTranslate has computed itemsToTranslate and chunks
Extracted == pc \notin {"idle", "loaded", "loadFailed"}

\* paragraph p of tree d holds a TOC or PAGEREF marker in its full text,
\* field instructions included
HasFieldMarker(d, p) ==
  \/ Includes(TextContent(d, p), TocMarker)
  \/ Includes(TextContent(d, p), PagerefMarker)

\* the positions of itemsToTranslate whose item carries this id
ItemsWithId(id) == {j \in 1..Len(itemsToTranslate) : itemsToTranslate[j].id = id}

\* the visible text of the text runs of paragraph p
VisibleText(d, p) == getSafeText(d, p)

\* C2: a paragraph whose full text (field instructions included) holds the TOC
\* or the PAGEREF marker gives no item, whatever visible text it has.
C2_FieldSafety ==
  Extracted =>
    \A i \in 1..Len(Loaded.paras) :
       HasFieldMarker(Loaded, i) => ItemsWithId(i - 1) = {}

\* a marked paragraph with visible text beside one that is extracted
C2_Witness ==
  /\ Extracted
  /\ Len(itemsToTranslate) > 0
  /\ \E i \in 1..Len(Loaded.paras) :
        /\ HasFieldMarker(Loaded, i)
        /\ Len(Trim(VisibleText(Loaded, i))) > 0

\* C5 as stated: a paragraph with non-empty safe text and no marker gives
\* exactly one item, whose id is the paragraph's 0-based position.
C5_Original ==
  Extracted =>
    \A i \in 1..Len(Loaded.paras) :
       (VisibleText(Loaded, i) # <<>> /\ ~HasFieldMarker(Loaded, i))
          => /\ Cardinality(ItemsWithId(i - 1)) = 1
             /\ \A j \in ItemsWithId(i - 1) :
                   itemsToTranslate[j].text = VisibleText(Loaded, i)

\* C5, amended: a paragraph whose safe text is not empty once trimmed of
\* blanks, and which holds no marker, gives exactly one item; its id is the
\* paragraph's 0-based position and its text the paragraph's safe text.
C5_ExtractionComplete ==
  Extracted =>
    \A i \in 1..Len(Loaded.paras) :
       (Len(Trim(VisibleText(Loaded, i))) > 0 /\ ~HasFieldMarker(Loaded, i))
          => /\ Cardinality(ItemsWithId(i - 1)) = 1
             /\ \A j \in ItemsWithId(i - 1) :
                   itemsToTranslate[j].text = VisibleText(Loaded, i)

\* the second paragraph is extracted and the first is not: the id is the
\* position in the document, not in the output
C5_Witness ==
  /\ Extracted
  /\ Len(Loaded.paras) >= 2
  /\ Len(Trim(VisibleText(Loaded, 2))) > 0 /\ ~HasFieldMarker(Loaded, 2)
  /\ Len(itemsToTranslate) = 1
  /\ itemsToTranslate[1].id = 1

\* C6: the batches, read one after the other, are the extracted items in
\* their order: none dropped, none twice.
C6_OrderPreservingPartition ==
  Extracted => Concat(chunks) = itemsToTranslate

\* several batches, one of them of several items
C6_Witness ==
  /\ Extracted
  /\ Len(chunks) >= 2
  /\ \E k \in 1..Len(chunks) : Len(chunks[k]) >= 2

\* the accumulated character length of a batch
ChunkLen(chunk) == TextLen(Concat([j \in 1..Len(chunk) |-> chunk[j].text]))

\* the item's paragraph has a heading style
HeadingItem(item) ==
  LET ppr == FirstPPr(Loaded, item.id + 1)
  IN ppr \notin {NoPPr, NoStyle} /\ HeadingPattern(ppr)

\* C10: a batch is the first or the last, or starts at a heading, or follows
\* a batch that had reached 3000 characters.
C10_BatchBoundary ==
  Extracted =>
    \A k \in 1..Len(chunks) :
       \/ k = 1
       \/ k = Len(chunks)
       \/ HeadingItem(chunks[k][1])
       \/ ChunkLen(chunks[k - 1]) >= 3000

\* a batch in the middle that starts at no heading, after a full batch
C10_Witness ==
  /\ Extracted
  /\ \E k \in 2..(Len(chunks) - 1) :
        /\ ~HeadingItem(chunks[k][1])
        /\ ChunkLen(chunks[k - 1]) >= 3000

\* the error thrown is the terminal error of the retry loop
TerminalError ==
  thrown # NoError /\ Head(thrown) = "Failed to translate batch after 5 attempts. Error:"

\* applyTranslations returned and the archive entry was written
Reassembled == pc \in {"generating", "done"}

\* C1: once a batch has used up its 5 attempts the call has thrown the
\* terminal error, no later batch has been dispatched, applyTranslations has
\* not run, the tree is as loaded, and nothing was written to or returned
\* from the archive.
C1_ExhaustionAborts ==
  \A k \in 1..Len(failures) :
     failures[k] >= MAX_RETRIES =>
        /\ pc = "failed"
        /\ TerminalError
        /\ \A j \in (k + 1)..Len(calls) : calls[j] = 0
        /\ ~applied
        /\ xmlDoc = Loaded
        /\ writes = <<>>
        /\ zip = file
        /\ blob = Null

\* the first of two batches used up its attempts
C1_Witness ==
  /\ Len(chunks) >= 2
  /\ failures[1] = MAX_RETRIES
  /\ pc = "failed"

\* batch k is over: a call for it resolved, or its attempts are used up
Finished(k) ==
  \/ calls[k] > failures[k] /\ \A o \in outstanding : o.batch # k
  \/ failures[k] >= MAX_RETRIES

\* C3: at most one translateBatch call is outstanding, and a call for batch
\* K+1 is made only once batch K is over.
C3_SequentialDispatch ==
  /\ Cardinality(outstanding) <= 1
  /\ \A k \in 1..(Len(calls) - 1) : calls[k + 1] > 0 => Finished(k)

\* the second batch is in flight after the first was retried
C3_Witness ==
  /\ pc = "awaiting"
  /\ processedChunks = 2
  /\ failures[1] > 0
  /\ outstanding = {[batch |-> 2, attempt |-> 1]}

\* the count part of C4: a batch that succeeds has failed fewer than 5 times
\* and has had one backoff delay per failure; the retry loop gives up only
\* at the 5th failure
RetryCounts ==
  /\ pc = "pause" =>
        /\ failures[processedChunks] < MAX_RETRIES
        /\ calls[processedChunks] = failures[processedChunks] + 1
        /\ Len(delays) = failures[processedChunks]
  /\ TerminalError => failures[processedChunks] = MAX_RETRIES

\* C4 as stated: with N failures before the success, the batch succeeds iff
\* N < 5, after exactly N backoff delays, each at least as long as the one
\* before.
C4_Original ==
  /\ RetryCounts
  /\ pc = "pause" =>
        \A i \in 1..(Len(delays) - 1) : delays[i].ms <= delays[i + 1].ms

\* C4, amended: with N failures before the success, the batch succeeds iff
\* N < 5, after exactly N backoff delays; a delay is shorter than the one
\* before it only where a rate-limit failure is followed by a failure of the
\* other class.
C4_RetryTermination ==
  /\ RetryCounts
  /\ pc = "pause" =>
        \A i \in 1..(Len(delays) - 1) :
           delays[i].ms > delays[i + 1].ms
              => delays[i].rateLimit /\ ~delays[i + 1].rateLimit

\* a batch succeeds at its 5th attempt, after failures of both classes
C4_Witness ==
  /\ pc = "pause"
  /\ failures[processedChunks] = MAX_RETRIES - 1
  /\ \E i, j \in 1..Len(delays) : delays[i].rateLimit /\ ~delays[j].rateLimit

\* the text runs of paragraph p as applyTranslations collects them
RunsOf(p) == TextNodes(Loaded, p)

\* entry e of the result map rewrote its paragraph as C7 says
RewrittenAsStated(e) ==
  LET runs == RunsOf(e.key + 1)
  IN /\ xmlDoc.leaves[runs[1]].text = e.val
     /\ xmlDoc.leaves[runs[1]].preserve
     /\ \A j \in 2..Len(runs) : xmlDoc.leaves[runs[j]].text = <<>>

\* C7 as stated: after applyTranslations, for every entry with a non-empty
\* text whose paragraph has a text run, the first run holds the text and is
\* marked xml:space="preserve" and the later runs are empty; a paragraph
\* without text runs is untouched.
C7_Original ==
  Reassembled =>
    /\ \A j \in 1..Len(translationMap) :
          LET e == translationMap[j]
          IN (e.val # <<>> /\ e.key + 1 \in 1..Len(Loaded.paras)
                /\ RunsOf(e.key + 1) # <<>>)
                => RewrittenAsStated(e)
    /\ \A p \in 1..Len(Loaded.paras) :
          RunsOf(p) = <<>> =>
             \A k \in 1..Len(Loaded.leaves) :
                InsideOrSelf(Loaded, p, Loaded.leaves[k].owner)
                   => xmlDoc.leaves[k] = Loaded.leaves[k]

\* no w:p of the loaded tree lies inside another
NoNesting == \A i \in 1..Len(Loaded.paras) : Loaded.paras[i].parent = 0

\* C7 holds of the documents without nested paragraphs
C7_WithoutNesting == (Reassembled /\ NoNesting) => C7_Original

\* the text runs that paragraph p holds itself
OwnRuns(p) ==
  {k \in 1..Len(Loaded.leaves) :
     Loaded.leaves[k].kind = "t" /\ Loaded.leaves[k].owner = p}

\* C8 as stated: after reassembly a paragraph with no entry in the result
\* map, or with an empty one, has each of its text runs as loaded.
C8_Original ==
  Reassembled =>
    \A p \in 1..Len(Loaded.paras) :
       (~MapHas(translationMap, p - 1) \/ MapGet(translationMap, p - 1) = <<>>)
          => \A k \in OwnRuns(p) : xmlDoc.leaves[k] = Loaded.leaves[k]

\* C8 holds of the documents without nested paragraphs
C8_WithoutNesting == (Reassembled /\ NoNesting) => C8_Original

\* leaf k is the first text run of a paragraph that has a non-empty entry
RewrittenFirstRun(k) ==
  \E j \in 1..Len(translationMap) :
     /\ translationMap[j].val # <<>>
     /\ translationMap[j].key + 1 \in 1..Len(Loaded.paras)
     /\ RunsOf(translationMap[j].key + 1) # <<>>
     /\ RunsOf(translationMap[j].key + 1)[1] = k

\* C9: from load on, the paragraph array and the tree keep their shape: the
\* same paragraphs in the same order with the same nesting and properties,
\* the same leaves in the same places; only the text of text runs changes,
\* and xml:space only on a rewritten first run.
C9_TreeShapeFixed ==
  pc \notin {"idle", "loadFailed"} =>
    /\ paragraphNodes = [i \in 1..Len(Loaded.paras) |-> i]
    /\ xmlDoc.paras = Loaded.paras
    /\ Len(xmlDoc.leaves) = Len(Loaded.leaves)
    /\ \A k \in 1..Len(Loaded.leaves) :
          /\ xmlDoc.leaves[k].owner = Loaded.leaves[k].owner
          /\ xmlDoc.leaves[k].kind = Loaded.leaves[k].kind
          /\ Loaded.leaves[k].kind # "t" => xmlDoc.leaves[k] = Loaded.leaves[k]
          /\ xmlDoc.leaves[k].preserve # Loaded.leaves[k].preserve
                => xmlDoc.leaves[k].preserve /\ RewrittenFirstRun(k)

\* a paragraph with a field instruction and a text run was rewritten
C9_Witness ==
  /\ pc = "done"
  /\ \E k, l \in 1..Len(Loaded.leaves) :
        /\ Loaded.leaves[k].kind = "instr"
        /\ Loaded.leaves[l].owner = Loaded.leaves[k].owner
        /\ xmlDoc.leaves[l] # Loaded.leaves[l]

\* C11: no batch is empty, and an empty item list gives no batch at all.
C11_NoEmptyBatch ==
  Extracted =>
    /\ \A k \in 1..Len(chunks) : Len(chunks[k]) > 0
    /\ itemsToTranslate = <<>> => chunks = <<>>

\* the first item is a heading, met while the current chunk is still empty,
\* and a later break closes a chunk
C11_Witness ==
  /\ Extracted
  /\ Len(chunks) >= 2
  /\ HeadingItem(chunks[1][1])

\* the ids of the items of batch k
BatchIds(k) == {chunks[k][j].id : j \in 1..Len(chunks[k])}

\* C12 as stated: when a batch has succeeded, the result map holds an entry
\* for every item id of that batch.
C12_Original ==
  pc = "pause" =>
    \A id \in BatchIds(processedChunks) : MapHas(translationMap, id)

\* what the code gives: when a batch has succeeded, exactly one call for it
\* has resolved, and the result map holds whatever entries the answers so far
\* carried, for ids of the batch or not
C12_SuccessIsResolution ==
  pc = "pause" =>
    /\ batchSuccess
    /\ calls[processedChunks] = failures[processedChunks] + 1
    /\ \A j \in 1..Len(translationMap) :
          translationMap[j].key \in 0..Len(paragraphNodes)

\* the batch in progress failed twice with a rate-limit error (a message with
\* "429" is one) and then succeeded
TwiceRateLimitedThenOk ==
  /\ pc = "pause"
  /\ Len(delays) = 2
  /\ delays[1].rateLimit /\ delays[2].rateLimit

\* C13 as stated: after two "429" failures and a success on the third
\* attempt, the waits were 5 s and 10 s, the pipeline has not aborted, and
\* the result map holds all the ids of the batch.
C13_Original ==
  TwiceRateLimitedThenOk =>
    /\ delays[1].ms = 5000 /\ delays[2].ms = 10000
    /\ calls[processedChunks] = 3
    /\ thrown = NoError
    /\ \A id \in BatchIds(processedChunks) : MapHas(translationMap, id)

\* the part of C13 about the waits: 5 s then 10 s, three calls, no abort
C13_Backoff ==
  TwiceRateLimitedThenOk =>
    /\ isRateLimit(<<"API Error:", "429">>)
    /\ delays[1].ms = 5000 /\ delays[2].ms = 10000
    /\ calls[processedChunks] = 3
    /\ thrown = NoError

\* C14: when extraction gives no item, processAndTranslate calls
\* translateBatch never and waits for no backoff, the result map is empty,
\* the tree is as loaded, nothing is thrown, and the call goes straight to
\* writing the document part and generating the archive.
C14_EmptyIsNoOp ==
  (Extracted /\ itemsToTranslate = <<>>) =>
    /\ chunks = <<>>
    /\ calls = <<>> /\ outstanding = {}
    /\ delays = <<>> /\ failures = <<>>
    /\ translationMap = <<>>
    /\ xmlDoc = Loaded
    /\ thrown = NoError
    /\ pc \in {"generating", "done"}
    /\ writes = <<"word/document.xml">>
    /\ pc = "done" => blob = Archive(Loaded)

\* a document with paragraphs but nothing to translate was processed
C14_Witness ==
  /\ pc = "done"
  /\ itemsToTranslate = <<>>
  /\ Len(Loaded.paras) > 0
  /\ Len(Loaded.leaves) > 0

\* every batch has succeeded: one call of it resolved, after fewer than 5
\* failures
AllBatchesSucceeded ==
  /\ processedChunks = Len(chunks)
  /\ \A k \in 1..Len(chunks) :
        calls[k] = failures[k] + 1 /\ failures[k] < MAX_RETRIES

\* C15: the archive processAndTranslate works on, and the one it returns,
\* equal the input archive in every entry other than word/document.xml; the
\* only zip.file call is the one for word/document.xml, and it is made once
\* every batch has succeeded.
C15_OnlyDocumentPartReplaced ==
  /\ zip # Null => zip.media = file.media
  /\ writes \in {<<>>, <<"word/document.xml">>}
  /\ writes # <<>> => AllBatchesSucceeded /\ zip.docXml = xmlDoc
  /\ blob # Null =>
        /\ blob.media = file.media
        /\ blob.docXml = xmlDoc
        /\ writes = <<"word/document.xml">>

\* an archive was returned whose document part differs from the input's,
\* after two batches
C15_Witness ==
  /\ pc = "done"
  /\ Len(chunks) >= 2
  /\ blob.docXml # file.docXml

\* C16: for an archive without word/document.xml, load throws its error and
\* nothing follows: processAndTranslate is never entered (nothing extracted,
\* no progress report, nothing applied, written or returned) and no
\* translateBatch call is made; load is not tried again.
C16_MissingPartIsFatal ==
  ~file.hasDoc =>
    /\ pc \in {"idle", "loadFailed"}
    /\ pc = "loadFailed" =>
          thrown = <<"Could not find word/document.xml in the package.">>
    /\ xmlDoc = Null /\ paragraphNodes = <<>>
    /\ ~Extracted /\ itemsToTranslate = <<>> /\ chunks = <<>>
    /\ calls = <<>> /\ outstanding = {}
    /\ progress = Null /\ ~applied /\ writes = <<>> /\ blob = Null

\* load has failed on an archive without the document part
C16_Witness ==
  /\ ~file.hasDoc
  /\ pc = "loadFailed"
  /\ thrown # NoError

\* the texts of the leaves k..Len(leaves) of the loaded tree that lie in
\* paragraph p and are text runs, one after the other
RECURSIVE RunTextFrom(_, _)
RunTextFrom(p, k) ==
  IF k > Len(Loaded.leaves) THEN <<>>
  ELSE (IF /\ Loaded.leaves[k].kind = "t"
           /\ InsideOrSelf(Loaded, p, Loaded.leaves[k].owner)
        THEN Loaded.leaves[k].text ELSE <<>>) \o RunTextFrom(p, k + 1)

\* the characters held by the field instructions of paragraph p
RECURSIVE InstrLenFrom(_, _)
InstrLenFrom(p, k) ==
  IF k > Len(Loaded.leaves) THEN 0
  ELSE (IF /\ Loaded.leaves[k].kind = "instr"
           /\ InsideOrSelf(Loaded, p, Loaded.leaves[k].owner)
        THEN TextLen(Loaded.leaves[k].text) ELSE 0) + InstrLenFrom(p, k + 1)

\* C17: the text of every item is the contents of the text runs of its
\* paragraph, in document order, and nothing else: the characters of the
\* paragraph's field instructions are not part of it.
C17_TextRunsOnly ==
  Extracted =>
    \A j \in 1..Len(itemsToTranslate) :
       LET item == itemsToTranslate[j]
       IN /\ item.text = RunTextFrom(item.id + 1, 1)
          /\ TextLen(item.text) + InstrLenFrom(item.id + 1, 1)
               = TextLen(TextContent(Loaded, item.id + 1))

\* an item of a paragraph that holds a field instruction with text beside
\* its text run
C17_Witness ==
  /\ Extracted
  /\ \E j \in 1..Len(itemsToTranslate) :
        /\ InstrLenFrom(itemsToTranslate[j].id + 1, 1) > 0
        /\ Len(itemsToTranslate[j].text) >= 1

\* every translated text of the result map is the empty string
AllEmpty == \A j \in 1..Len(translationMap) : translationMap[j].val = <<>>

\* C18: applying a result map whose texts are all empty leaves the tree as
\* loaded, contents and attributes alike, and throws nothing; the document
\* part written to the archive is the loaded tree.
C18_AllEmptyIsIdentity ==
  (applied /\ AllEmpty) =>
    /\ xmlDoc = Loaded
    /\ pc \in {"generating", "done"}
    /\ thrown = NoError
    /\ zip.docXml = Loaded

\* a result map with an empty text for a paragraph that has a text run, and
\* nothing else, was applied
C18_Witness ==
  /\ pc = "done"
  /\ translationMap # <<>>
  /\ AllEmpty
  /\ \E j \in 1..Len(translationMap) :
        /\ translationMap[j].key + 1 \in 1..Len(Loaded.paras)
        /\ RunsOf(translationMap[j].key + 1) # <<>>

\* C19: the terminal error carries the message of the rejection that used up
\* the attempts, the 5th of its batch; once an error is thrown nothing more
\* happens, so it is the only one of the run.
C19_LastMessageOnce ==
  TerminalError =>
    /\ thrown = <<"Failed to translate batch after 5 attempts. Error:">>
                  \o lastErrorMessage
    /\ lastErrorMessage \in ErrorMessages
    /\ failures[processedChunks] = MAX_RETRIES
    /\ pc = "failed"
    /\ ~ENABLED Next

\* the attempts are used up by a rate-limit rejection after a rejection of
\* the other class
C19_Witness ==
  /\ TerminalError
  /\ isRateLimit(lastErrorMessage)
  /\ Len(delays) = MAX_RETRIES - 1
  /\ ~delays[MAX_RETRIES - 1].rateLimit

\* the ids of a sequence of items, in order
IdsOf(items) == [j \in 1..Len(items) |-> items[j].id]

\* C20: for the worked example, extraction gives the ids 0, 1, 2, 3 (not 4)
\* and chunking gives the one batch of those four.
C20_WorkedExample ==
  Extracted =>
    /\ IdsOf(itemsToTranslate) = <<0, 1, 2, 3>>
    /\ Len(chunks) = 1
    /\ IdsOf(chunks[1]) = <<0, 1, 2, 3>>

\* the worked example was chunked: its one batch is past the target size,
\* 3009 characters, and starts at the heading
C20_Witness ==
  /\ Extracted
  /\ Len(chunks) = 1
  /\ ChunkLen(chunks[1]) = 3009
  /\ HeadingItem(chunks[1][1])

\* the accumulated character length of the first n items of a batch
PrefixLen(chunk, n) == ChunkLen(SubSeq(chunk, 1, n))

\* C21: a batch breaks before an item exactly when the current batch is not
\* empty and the item is a heading or the length accumulated before it is at
\* least 3000: an item inside a batch is no heading and has less than 3000
\* characters before it, the first item of a later batch is a heading or
\* follows 3000 characters or more; so a heading is the first of its batch.
C21_BreakExactly ==
  Extracted =>
    /\ \A k \in 1..Len(chunks) :
          \A j \in 2..Len(chunks[k]) :
             /\ ~HeadingItem(chunks[k][j])
             /\ PrefixLen(chunks[k], j - 1) < 3000
    /\ \A k \in 2..Len(chunks) :
          \/ HeadingItem(chunks[k][1])
          \/ ChunkLen(chunks[k - 1]) >= 3000
    /\ \A k \in 1..Len(chunks) :
          \A j \in 1..Len(chunks[k]) : HeadingItem(chunks[k][j]) => j = 1

\* one break made for the length alone and one for a heading alone
C21_Witness ==
  /\ Extracted
  /\ \E k \in 2..Len(chunks) :
        ~HeadingItem(chunks[k][1]) /\ ChunkLen(chunks[k - 1]) >= 3000
  /\ \E k \in 2..Len(chunks) :
        HeadingItem(chunks[k][1]) /\ ChunkLen(chunks[k - 1]) < 3000

\* the waits of the two classes, by retry number
RateLimitWaits == <<5000, 10000, 20000, 40000>>
OtherWaits == <<2000, 4000, 6000, 8000>>

\* the message holds "429" or "RESOURCE_EXHAUSTED"
SignalsRateLimit(msg) ==
  \E i \in 1..Len(msg) : msg[i] \in {"429", "RESOURCE_EXHAUSTED"}

\* C22: the wait after the r-th failure of a batch, r = 1..4, is 5 s, 10 s,
\* 20 s, 40 s when the message signals rate limiting and 2 s, 4 s, 6 s, 8 s
\* otherwise; the 5th failure is followed by no wait but by the throw.
C22_BackoffSchedule ==
  /\ Len(delays) <= MAX_RETRIES - 1
  /\ \A r \in 1..Len(delays) :
        delays[r].ms = IF delays[r].rateLimit THEN RateLimitWaits[r]
                       ELSE OtherWaits[r]
  /\ pc = "backoff" =>
        /\ Len(delays) = failures[processedChunks]
        /\ delays[Len(delays)].rateLimit = SignalsRateLimit(lastErrorMessage)
  /\ (processedChunks > 0 /\ failures[processedChunks] = MAX_RETRIES) =>
        /\ pc = "failed"
        /\ Len(delays) = MAX_RETRIES - 1
        /\ TerminalError

\* the batch waits for the fourth time, after failures of both classes
C22_Witness ==
  /\ pc = "backoff"
  /\ Len(delays) = 4
  /\ delays[3].rateLimit /\ ~delays[4].rateLimit /\ delays[1].rateLimit

\* C23: in every batch the items before the last hold fewer than 3000
\* characters together, so a batch is over the target only by its last item;
\* an item of 3000 characters or more is taken whole.
C23_BoundedBatch ==
  Extracted =>
    /\ \A k \in 1..Len(chunks) :
          PrefixLen(chunks[k], Len(chunks[k]) - 1) < 3000
    /\ \A j \in 1..Len(itemsToTranslate) :
          \E k \in 1..Len(chunks) : \E i \in 1..Len(chunks[k]) :
             chunks[k][i] = itemsToTranslate[j]

\* a batch over the target by its last item, a paragraph of 3000 characters
\* taken whole after a shorter one, and a batch after it
C23_Witness ==
  /\ Extracted
  /\ Len(chunks) >= 2
  /\ Len(chunks[1]) >= 2
  /\ ChunkLen(chunks[1]) > 3000
  /\ TextLen(chunks[1][Len(chunks[1])].text) >= 3000

\* batch k has been reached by the for loop
Dispatched(k) == k <= processedChunks

\* a call for batch k has resolved
Succeeded(k) ==
  /\ calls[k] = failures[k] + 1
  /\ \A o \in outstanding : o.batch # k

\* C24: a batch the loop has reached has had between 1 and 5 translateBatch
\* calls, one more than its failures while a call is in flight or after one
\* has resolved, so N + 1 calls when the first N < 5 attempts failed and no
\* further call after a success; a batch not reached has had none; when the
\* loop is through, every batch has had its calls.
C24_CallCount ==
  /\ \A k \in 1..Len(calls) :
        /\ Dispatched(k) => calls[k] \in 1..MAX_RETRIES
        /\ ~Dispatched(k) => calls[k] = 0
        /\ calls[k] \in {failures[k], failures[k] + 1}
        /\ Succeeded(k) => failures[k] < MAX_RETRIES
        /\ (Dispatched(k) /\ k < processedChunks) => Succeeded(k)
  /\ pc \in {"generating", "done"} =>
        \A k \in 1..Len(calls) : Succeeded(k)

\* the first batch succeeded at its 5th call and the second at its 1st
C24_Witness ==
  /\ pc = "done"
  /\ Len(calls) = 2
  /\ calls[1] = MAX_RETRIES /\ failures[1] = MAX_RETRIES - 1
  /\ calls[2] = 1

\* the call of load or processAndTranslate has returned or thrown
Terminated == pc \in {"done", "failed", "loadFailed"}

\* the translateBatch calls made so far, over all the batches
RECURSIVE SumCalls(_)
SumCalls(k) == IF k = 0 THEN 0 ELSE calls[k] + SumCalls(k - 1)

\* C25: when every call settles and every delay ends, processAndTranslate
\* ends, with the archive returned or an error thrown, and has made at most
\* 5 calls for each batch by then.
C25_Terminates ==
  /\ [](SumCalls(Len(calls)) <= MAX_RETRIES * Len(chunks))
  /\ Extracted ~> Terminated
  /\ [](Terminated => (pc = "done" /\ blob # Null) \/ thrown # NoError)

\* two batches, each at its last attempt, and the archive returned
C25_Witness ==
  /\ pc = "done"
  /\ blob # Null
  /\ Len(calls) = 2
  /\ SumCalls(2) = 2 * MAX_RETRIES

\* the last call of the batch in progress rejected because the response did
\* not parse
ParseFailed == lastErrorMessage = ParseFailureMessage

\* C26: a response that does not parse counts as one failed attempt like any
\* other error: the attempt is counted, the wait before the next attempt is
\* the one of the errors that are no rate limit, 2000 ms times the retry
\* number, and at the 5th failure the terminal error is thrown with its
\* message.
C26_ParseFailureIsRetried ==
  ParseFailed =>
    /\ pc \in {"backoff", "awaiting", "failed"}
    /\ failures[processedChunks] = retries
    /\ pc = "backoff" =>
          /\ retries < MAX_RETRIES
          /\ Len(delays) = retries
          /\ delays[retries] = [ms |-> 2000 * retries, rateLimit |-> FALSE]
          /\ thrown = NoError
    /\ pc = "failed" =>
          /\ retries = MAX_RETRIES
          /\ thrown = <<"Failed to translate batch after 5 attempts. Error:">>
                        \o ParseFailureMessage

\* a response that did not parse used up the attempts of a batch whose
\* earlier failures were rate limits
C26_Witness ==
  /\ ParseFailed
  /\ pc = "failed"
  /\ \A r \in 1..Len(delays) : delays[r].rateLimit

\* the first call of batch processedChunks has just been made: onProgress
\* was called right before it
FirstCallInFlight ==
  /\ pc = "awaiting"
  /\ calls[processedChunks] = 1

\* C27 as stated: the progress report made right before the k-th batch is
\* dispatched carries completed = k - 1 and total = the number of batches.
C27_Original ==
  FirstCallInFlight =>
    /\ progress.completed = processedChunks - 1
    /\ progress.total = Len(chunks)

\* what the code reports right before the k-th batch is dispatched:
\* completed = k, the batch about to be sent counted in
C27_ReportsCurrentBatch ==
  FirstCallInFlight =>
    /\ progress.completed = processedChunks
    /\ progress.total = Len(chunks)

\* a load / processAndTranslate cycle is under way
Busy == appState \in {"PARSING", "TRANSLATING"}

\* C28: at most one startTranslation call is in flight on the handler; one
\* is in flight exactly while the state is PARSING or TRANSLATING, so the
\* call has left IDLE before it first suspends; the start button can be
\* used only in state IDLE with a file selected, and while a call is in
\* flight neither the start button nor the file input can be used.
C28_OneCycleAtATime ==
  /\ inFlight \in {0, 1}
  /\ inFlight = 1 <=> Busy
  /\ ENABLED StartTranslation => appState = "IDLE" /\ file # Null
  /\ Busy => ~ENABLED StartTranslation /\ ~ENABLED SelectFile /\ ~ENABLED ResetApp
  /\ (pc \in {"awaiting", "backoff", "pause", "generating"}) => Busy

\* a cycle is in flight, awaiting load, on the handler that still holds the
\* archive of an earlier cycle
C28_Witness ==
  /\ Busy
  /\ inFlight = 1
  /\ pc = "idle"
  /\ zip # Null /\ zip # file

\* paragraph p was sent to the backend: an extracted item carries its id
Sent(p) == ItemsWithId(p - 1) # {}

\* the call failed in applyTranslations, on an id that indexes no paragraph
ReassemblyFailed == pc = "failed" /\ thrown = <<"TypeError">>

\* C29 as stated: whatever ids the answers carry, reassembly does not fail on
\* an id that indexes no paragraph, and a paragraph that was not sent, and
\* lies in none that was, keeps its text runs as loaded.
C29_Original ==
  applied =>
    /\ ~ReassemblyFailed
    /\ \A p \in 1..Len(Loaded.paras) :
          (\A q \in 1..Len(Loaded.paras) : InsideOrSelf(Loaded, q, p) => ~Sent(q))
             => \A k \in OwnRuns(p) : xmlDoc.leaves[k] = Loaded.leaves[k]

\* what the code gives: reassembly fails exactly when the result map holds a
\* non-empty text for an id that indexes no paragraph
C29_FailsOnUnknownId ==
  applied =>
    (ReassemblyFailed <=>
       \E j \in 1..Len(translationMap) :
          /\ translationMap[j].val # <<>>
          /\ translationMap[j].key + 1 \notin 1..Len(paragraphNodes))

\* C30 as stated: the waits of the batch in progress never decrease from one
\* failed attempt to the next, whatever the classes of the failures.
C30_Original ==
  \A i \in 1..(Len(delays) - 1) : delays[i].ms <= delays[i + 1].ms

\* C30, amended: the wait after a failed attempt is shorter than the wait
\* before it exactly when a rate-limit failure is followed by a failure of
\* the other class (5000 then 4000, 10000 then 6000, 20000 then 8000 ms); in
\* every other case it is longer.
C30_DecreasesOnClassChange ==
  \A i \in 1..(Len(delays) - 1) :
     /\ delays[i + 1].ms < delays[i].ms
          <=> (delays[i].rateLimit /\ ~delays[i + 1].rateLimit)
     /\ delays[i + 1].ms # delays[i].ms
     /\ (delays[i].rateLimit /\ ~delays[i + 1].rateLimit)
          => <<delays[i].ms, delays[i + 1].ms>>
               \in {<<5000, 4000>>, <<10000, 6000>>, <<20000, 8000>>}

\* the wait dropped from 20000 ms to 8000 ms
C30_Witness ==
  /\ Len(delays) = 4
  /\ delays[3].ms = 20000
  /\ delays[4].ms = 8000

(***************************************************************************)
(* The second handler variant of docxHandler.ts: chunking                  *)
(***************************************************************************)
\* isHeading of the second variant: the same lookups with explicit early
\* returns in place of optional chaining
isHeadingSecond(d, pn, index) ==
  IF index + 1 \notin DOMAIN pn THEN FALSE
  ELSE LET pPr == FirstPPr(d, pn[index + 1])
       IN IF pPr = NoPPr THEN FALSE
          ELSE IF pPr = NoStyle THEN FALSE
          ELSE HeadingPattern(pPr)

\* a variant of the second createChunks that tests the size with the current
\* item already counted
createChunksSecondBreakAfterAdd(d, pn, items) ==
  LET RECURSIVE loop(_, _, _, _)
      loop(i, acc, currentChunk, currentChunkLen) ==
        IF i > Len(items)
        THEN IF Len(currentChunk) > 0 THEN Append(acc, currentChunk) ELSE acc
        ELSE LET item == items[i]
                 isHeader == isHeadingSecond(d, pn, item.id)
                 shouldBreak ==
                   /\ Len(currentChunk) > 0
                   /\ \/ isHeader
                      \/ currentChunkLen + TextLen(item.text) >= TARGET_CHUNK_SIZE
             IN IF shouldBreak
                THEN loop(i + 1, Append(acc, currentChunk), <<item>>,
                          TextLen(item.text))
                ELSE loop(i + 1, acc, Append(currentChunk, item),
                          currentChunkLen + TextLen(item.text))
  IN loop(1, <<>>, <<>>, 0)

\* createChunks of the second variant: shouldBreak is computed before the
\* item is pushed, from the length accumulated so far
createChunksSecond(d, pn, items) ==
  LET RECURSIVE loop(_, _, _, _)
      loop(i, acc, currentChunk, currentChunkLen) ==
        IF i > Len(items)
        THEN IF Len(currentChunk) > 0 THEN Append(acc, currentChunk) ELSE acc
        ELSE LET item == items[i]
                 isHeader == isHeadingSecond(d, pn, item.id)
                 shouldBreak ==
                   /\ Len(currentChunk) > 0
                   /\ (isHeader \/ currentChunkLen >= TARGET_CHUNK_SIZE)
             IN IF shouldBreak
                THEN loop(i + 1, Append(acc, currentChunk), <<item>>,
                          TextLen(item.text))
                ELSE loop(i + 1, acc, Append(currentChunk, item),
                          currentChunkLen + TextLen(item.text))
  IN loop(1, <<>>, <<>>, 0)

\* the lists of items the two variants are compared on: the extracted list
\* and each of its ordered sublists obtained by dropping one item
ItemLists ==
  {itemsToTranslate} \cup
  { LET kept == SelectIdx(Len(itemsToTranslate), LAMBDA j : j # drop)
    IN [j \in 1..Len(kept) |-> itemsToTranslate[kept[j]]] :
      drop \in 1..Len(itemsToTranslate) }

\* C32: the two createChunks variants emit the same batch sequence for every
\* ordered item list and heading assignment, and both test the size against
\* the length accumulated before the current item is added: an item that
\* takes a batch to 3000 characters or over is still the last of that batch.
C32_VariantsEquivalent ==
  Extracted =>
    /\ createChunksSecond(xmlDoc, paragraphNodes, itemsToTranslate) = chunks
    /\ \A items \in ItemLists :
          createChunksSecond(xmlDoc, paragraphNodes, items)
            = createChunks(xmlDoc, paragraphNodes, items)
    /\ \A k \in 1..Len(chunks) :
          PrefixLen(chunks[k], Len(chunks[k]) - 1) < TARGET_CHUNK_SIZE

\* both variants made the same break for the length alone, after a batch of
\* two items that went over the target with its last item
C32_Witness ==
  /\ Extracted
  /\ createChunksSecond(xmlDoc, paragraphNodes, itemsToTranslate) = chunks
  /\ \E k \in 2..Len(chunks) :
        /\ ~HeadingItem(chunks[k][1])
        /\ Len(chunks[k - 1]) >= 2
        /\ ChunkLen(chunks[k - 1]) > TARGET_CHUNK_SIZE


(***************************************************************************)
(* The second handler variant of docxHandler.ts with the translateBatch    *)
(* it imports: three attempts for a batch                                  *)
(***************************************************************************)
\* the bound of the while loop: retries < 3
SecondMaxAttempts == 3

\* getExtractableParagraphs of the second variant: node.textContent of every
\* paragraph, kept when its trimmed text is not empty
getExtractableParagraphsSecond(d, pn) ==
  LET mapped == [i \in 1..Len(pn) |->
                   [id |-> i - 1, text |-> TextContent(d, pn[i])]]
      kept == SelectIdx(Len(mapped), LAMBDA i : TextLen(Trim(mapped[i].text)) > 0)
  IN [j \in 1..Len(kept) |-> mapped[kept[j]]]

\* the forEach of the second translateBatch over parsed.translations: an
\* entry is set when its translated_text is neither undefined nor null
RECURSIVE parseResponseSecond(_)
parseResponseSecond(translations) ==
  IF translations = <<>> THEN <<>>
  ELSE LET t == translations[Len(translations)]
           rest == parseResponseSecond(SubSeq(translations, 1,
                                              Len(translations) - 1))
       IN IF t.translated_text # Undefined
          THEN MapSet(rest, t.id, t.translated_text)
          ELSE rest

\* what the second translateBatch resolves with when a key is configured:
\* the map parsed from the answer, or the empty map its catch block returns
\* for an error of the backend or of the parse
BatchResultsSecond(n) ==
  {<<>>} \cup {parseResponseSecond(translations) : translations \in Answers(n)}

\* applyTranslations of the second variant: the first w:t takes the text, the
\* others are emptied; no attribute is set
RECURSIVE ApplyLoopSecond(_, _, _, _)
ApplyLoopSecond(d, pn, tmap, j) ==
  IF j > Len(tmap) THEN [doc |-> d, threw |-> FALSE]
  ELSE LET translatedText == tmap[j].val
           index == tmap[j].key
       IN IF translatedText = <<>> THEN ApplyLoopSecond(d, pn, tmap, j + 1)
          ELSE IF index + 1 \notin DOMAIN pn THEN [doc |-> d, threw |-> TRUE]
          ELSE LET textNodes == TextNodes(d, pn[index + 1])
                   after ==
                     [d EXCEPT !.leaves =
                        [k \in 1..Len(d.leaves) |->
                           IF Len(textNodes) > 0 /\ k = textNodes[1]
                           THEN [d.leaves[k] EXCEPT !.text = translatedText]
                           ELSE IF \E i \in 2..Len(textNodes) : textNodes[i] = k
                           THEN [d.leaves[k] EXCEPT !.text = <<>>]
                           ELSE d.leaves[k]]]
               IN ApplyLoopSecond(after, pn, tmap, j + 1)

applyTranslationsSecond(d, pn, tmap) == ApplyLoopSecond(d, pn, tmap, 1)

\* load(file) of the second variant
LoadSecond ==
  /\ pc = "idle"
  /\ appState = "PARSING"
  /\ zip' = file
  /\ IF ~file.hasDoc
     THEN /\ thrown' = <<"Invalid DOCX file: word/document.xml not found">>
          /\ pc' = "loadFailed"
          /\ appState' = "ERROR"
          /\ inFlight' = inFlight - 1
          /\ UNCHANGED <<xmlDoc, paragraphNodes>>
     ELSE /\ xmlDoc' = file.docXml
          /\ paragraphNodes' = ParagraphCollection(file.docXml)
          /\ pc' = "loaded"
          /\ UNCHANGED <<thrown, appState, inFlight>>
  /\ UNCHANGED <<apiKey, file, itemsToTranslate, chunks, processedChunks,
                 retries, batchSuccess, translationMap, outstanding, calls,
                 failures, delays, lastErrorMessage, progress, applied, writes,
                 blob>>

\* the top of the for loop body of the second variant for batch k, up to the
\* first translateBatch call
EnterBatchSecond(k, total, callsBefore) ==
  /\ processedChunks' = k
  /\ progress' = [completed |-> k, total |-> total]
  /\ retries' = 0
  /\ batchSuccess' = FALSE
  /\ delays' = <<>>
  /\ outstanding' = Issue(outstanding, k, 1)
  /\ calls' = [callsBefore EXCEPT ![k] = @ + 1]
  /\ pc' = "awaiting"
  /\ appState' = "TRANSLATING"
  /\ UNCHANGED <<xmlDoc, zip, writes, thrown, applied, inFlight>>

\* after the for loop of the second variant: onProgress, applyTranslations,
\* serialize, zip.file, generateAsync
ReassembleSecond(tmap, total) ==
  LET r == applyTranslationsSecond(xmlDoc, paragraphNodes, tmap)
  IN /\ progress' = [completed |-> total, total |-> total]
     /\ applied' = TRUE
     /\ delays' = <<>>
     /\ xmlDoc' = r.doc
     /\ IF r.threw
        THEN /\ thrown' = <<"TypeError">>
             /\ pc' = "failed"
             /\ appState' = "ERROR"
             /\ inFlight' = inFlight - 1
             /\ UNCHANGED <<zip, writes>>
        ELSE /\ zip' = [zip EXCEPT !.hasDoc = TRUE, !.docXml = r.doc]
             /\ writes' = Append(writes, "word/document.xml")
             /\ pc' = "generating"
             /\ appState' = "TRANSLATING"
             /\ UNCHANGED <<thrown, inFlight>>

\* the for loop of the second variant goes on after batch processedChunks
ContinueSecond ==
  IF processedChunks < Len(chunks)
  THEN EnterBatchSecond(processedChunks + 1, Len(chunks), calls)
  ELSE /\ ReassembleSecond(translationMap, Len(chunks))
       /\ UNCHANGED <<processedChunks, retries, batchSuccess, outstanding,
                      calls>>

\* processAndTranslate of the second variant, from its entry to its first await
ProcessStartSecond ==
  /\ pc = "loaded"
  /\ LET items == getExtractableParagraphsSecond(xmlDoc, paragraphNodes)
         cs == createChunksSecond(xmlDoc, paragraphNodes, items)
     IN /\ itemsToTranslate' = items
        /\ chunks' = cs
        /\ translationMap' = <<>>
        /\ IF Len(cs) = 0
           THEN /\ ReassembleSecond(<<>>, 0)
                /\ calls' = <<>>
                /\ failures' = <<>>
                /\ UNCHANGED <<processedChunks, retries, batchSuccess,
                               outstanding>>
           ELSE /\ EnterBatchSecond(1, Len(cs), [k \in 1..Len(cs) |-> 0])
                /\ failures' = [k \in 1..Len(cs) |-> 0]
  /\ UNCHANGED <<apiKey, file, paragraphNodes, lastErrorMessage, blob>>

\* the awaited translateBatch of the second variant resolves; delay(200)
TranslateOkSecond ==
  /\ pc = "awaiting"
  /\ apiKey
  /\ \E results \in BatchResultsSecond(Len(paragraphNodes)) :
        translationMap' = MergeResults(translationMap, results)
  /\ batchSuccess' = TRUE
  /\ outstanding' = Settle(outstanding)
  /\ pc' = "pause"
  /\ UNCHANGED <<apiKey, file, zip, xmlDoc, paragraphNodes, itemsToTranslate,
                 chunks, processedChunks, retries, calls, failures, delays,
                 lastErrorMessage, progress, thrown, applied, writes, blob,
                 appState, inFlight>>

\* the awaited translateBatch of the second variant rejects, which it does
\* when no key is configured: the catch block, retries++ and delay
TranslateFailSecond ==
  /\ pc = "awaiting"
  /\ ~apiKey
  /\ retries' = retries + 1
  /\ delays' = Append(delays, [ms |-> 1000 * retries'])
  /\ pc' = "backoff"
  /\ outstanding' = Settle(outstanding)
  /\ failures' = [failures EXCEPT ![processedChunks] = @ + 1]
  /\ UNCHANGED <<apiKey, file, zip, xmlDoc, paragraphNodes, itemsToTranslate,
                 chunks, processedChunks, batchSuccess, translationMap, calls,
                 lastErrorMessage, progress, thrown, applied, writes, blob,
                 appState, inFlight>>

\* the delay of the catch block ends: the while test is made again, and the
\* for loop goes on when it fails
BackoffDoneSecond ==
  /\ pc = "backoff"
  /\ IF retries < SecondMaxAttempts /\ ~batchSuccess
     THEN /\ outstanding' = Issue(outstanding, processedChunks, retries + 1)
          /\ calls' = [calls EXCEPT ![processedChunks] = @ + 1]
          /\ pc' = "awaiting"
          /\ UNCHANGED <<processedChunks, retries, batchSuccess, delays,
                         progress, xmlDoc, zip, writes, thrown, applied,
                         appState, inFlight>>
     ELSE ContinueSecond
  /\ UNCHANGED <<apiKey, file, paragraphNodes, itemsToTranslate, chunks,
                 translationMap, failures, lastErrorMessage, blob>>

\* delay(200) after a resolved call ends: the while loop exits
PauseDoneSecond ==
  /\ pc = "pause"
  /\ batchSuccess
  /\ ContinueSecond
  /\ UNCHANGED <<apiKey, file, paragraphNodes, itemsToTranslate, chunks,
                 translationMap, failures, lastErrorMessage, blob>>

\* documents of paragraphs side by side and an archive without the document
\* part, with and without a key in the environment
InitSecond ==
  /\ \/ file = NoDocumentPart
     \/ FileIsTree(MaxParas, MaxLeaves, {<<"a">>, <<"sp">>}, {NoPPr, "Heading1"},
                   {0}, {"t"}, {FALSE})
  /\ Constructed
  /\ apiKey \in BOOLEAN
  /\ CycleStarted

NextSecond ==
  \/ LoadSecond
  \/ ProcessStartSecond
  \/ TranslateOkSecond
  \/ TranslateFailSecond
  \/ BackoffDoneSecond
  \/ PauseDoneSecond
  \/ GenerateDone

SpecSecond == InitSecond /\ [][NextSecond]_vars

\* C31 as stated: once the three attempts of a batch have all failed and the
\* last delay is over, processAndTranslate has thrown; no later batch is
\* dispatched, nothing is written to the archive and no archive is returned.
C31_Original ==
  \A k \in 1..Len(failures) :
     failures[k] = SecondMaxAttempts =>
        /\ \A j \in (k + 1)..Len(calls) : calls[j] = 0
        /\ writes = <<>>
        /\ blob = Null
        /\ (pc # "backoff" \/ processedChunks # k) => thrown # NoError

\* what the second variant does instead: it never throws for a batch; after
\* the third failure and its delay the for loop goes on, and a document none
\* of whose batches resolved is still reassembled and returned
C31_GoesOnAfterThreeFailures ==
  /\ thrown \in {NoError, <<"Invalid DOCX file: word/document.xml not found">>,
                 <<"TypeError">>}
  /\ \A k \in 1..Len(failures) :
        /\ failures[k] <= SecondMaxAttempts
        /\ (failures[k] = SecondMaxAttempts /\ processedChunks > k)
             => calls[k + 1] >= 1
  /\ (pc = "done" /\ ~apiKey) =>
        /\ blob # Null
        /\ translationMap = <<>>
        /\ \A k \in 1..Len(failures) : failures[k] = SecondMaxAttempts

\* three attempts failed for each of two batches and an archive was returned
C31_Witness ==
  /\ pc = "done"
  /\ Len(chunks) = 2
  /\ failures = <<3, 3>>
  /\ blob # Null


(***************************************************************************)
(* The handler under a client that calls load and processAndTranslate in   *)
(* turn on one DocxHandler, whatever load did                              *)
(***************************************************************************)
\* no call on the handler is in progress
Settled == pc \in {"idle", "loaded", "loadFailed", "done", "failed"}

\* load(f) for an archive f, on the handler as the calls before left it; the
\* records of the call that may follow start afresh, this.zip is assigned
\* before the document part is looked up
ClientLoad ==
  /\ Settled
  /\ \/ file' = NoDocumentPart
     \/ \E sh \in Shapes(AppMaxParas, AppMaxLeaves, {0}) :
           \E pp \in [1..Len(sh.paras) -> {NoPPr, "Heading1"}],
              at \in [1..Len(sh.leaves) ->
                        [kind : {"t"}, text : {<<"a">>}, preserve : {FALSE}]] :
              file' = Archive(TreeOf(sh, pp, at))
  /\ zip' = file'
  /\ IF ~file'.hasDoc
     THEN /\ thrown' = <<"Could not find word/document.xml in the package.">>
          /\ pc' = "loadFailed"
          /\ appState' = "ERROR"
          /\ UNCHANGED <<xmlDoc, paragraphNodes>>
     ELSE /\ xmlDoc' = file'.docXml
          /\ paragraphNodes' = ParagraphCollection(file'.docXml)
          /\ pc' = "loaded"
          /\ appState' = "PARSING"
          /\ thrown' = NoError
  /\ inFlight' = 1
  /\ progress' = [completed |-> 0, total |-> 0]
  /\ itemsToTranslate' = <<>>
  /\ chunks' = <<>>
  /\ processedChunks' = 0
  /\ retries' = 0
  /\ batchSuccess' = FALSE
  /\ translationMap' = <<>>
  /\ outstanding' = {}
  /\ calls' = <<>>
  /\ failures' = <<>>
  /\ delays' = <<>>
  /\ lastErrorMessage' = NoError
  /\ applied' = FALSE
  /\ writes' = <<>>
  /\ blob' = Null
  /\ UNCHANGED apiKey

\* processAndTranslate called after load has returned or thrown: the guard on
\* this.xmlDoc and this.zip, then extraction, chunking and the first call
ClientProcess ==
  /\ pc \in {"loaded", "loadFailed"}
  /\ IF xmlDoc = Null \/ zip = Null
     THEN /\ thrown' = <<"Document not loaded">>
          /\ pc' = "failed"
          /\ appState' = "ERROR"
          /\ inFlight' = inFlight - 1
          /\ UNCHANGED <<zip, xmlDoc, itemsToTranslate, chunks, processedChunks,
                         retries, batchSuccess, translationMap, outstanding,
                         calls, failures, delays, progress, applied, writes>>
     ELSE LET items == getExtractableParagraphs(xmlDoc, paragraphNodes)
              cs == createChunks(xmlDoc, paragraphNodes, items)
          IN /\ itemsToTranslate' = items
             /\ chunks' = cs
             /\ translationMap' = <<>>
             /\ IF Len(cs) = 0
                THEN /\ Reassemble(<<>>, 0)
                     /\ calls' = <<>>
                     /\ failures' = <<>>
                     /\ UNCHANGED <<processedChunks, retries, batchSuccess,
                                    outstanding>>
                ELSE /\ EnterBatch(1, Len(cs), [k \in 1..Len(cs) |-> 0])
                     /\ failures' = [k \in 1..Len(cs) |-> 0]
  /\ UNCHANGED <<apiKey, file, paragraphNodes, lastErrorMessage, blob>>

NextHandler ==
  \/ ClientLoad
  \/ ClientProcess
  \/ TranslateOk
  \/ TranslateFail
  \/ BackoffDone
  \/ PauseDone
  \/ GenerateDone

SpecHandler == InitApp /\ [][NextHandler]_vars

\* the last load threw: the file it was given has no document part
LastLoadFailed == file # Null /\ ~file.hasDoc

\* processAndTranslate has been called since the last load
ProcessCalled == pc \notin {"idle", "loaded", "loadFailed"}

\* C33 as stated: when the last load threw for want of word/document.xml,
\* a processAndTranslate call made after it throws "Document not loaded",
\* calls translateBatch for no batch and writes nothing to the archive, also
\* when an earlier load on the handler had succeeded.
C33_Original ==
  (LastLoadFailed /\ ProcessCalled) =>
     /\ pc = "failed"
     /\ thrown = <<"Document not loaded">>
     /\ \A k \in 1..Len(calls) : calls[k] = 0
     /\ writes = <<>>
     /\ blob = Null

\* what holds of the code: the call is rejected, with no translateBatch call
\* and no write, exactly when no load on the handler has ever succeeded; after
\* an earlier success the call works on the tree of the earlier document and
\* whatever it writes goes into the archive that lacks the document part
C33_RejectedOnlyWhenNeverLoaded ==
  (LastLoadFailed /\ ProcessCalled) =>
     /\ zip # Null
     /\ xmlDoc = Null =>
          /\ pc = "failed"
          /\ thrown = <<"Document not loaded">>
          /\ \A k \in 1..Len(calls) : calls[k] = 0
          /\ writes = <<>>
          /\ blob = Null
     /\ xmlDoc # Null =>
          /\ thrown # <<"Document not loaded">>
          /\ Len(paragraphNodes) = Len(xmlDoc.paras)
          /\ blob # Null => (blob.hasDoc /\ blob.docXml = xmlDoc)

\* after a load that succeeded and a load that threw, processAndTranslate
\* has translated the earlier document and returned an archive with it
C33_Witness ==
  /\ LastLoadFailed
  /\ pc = "done"
  /\ blob # Null
  /\ blob.hasDoc
  /\ \E k \in 1..Len(calls) : calls[k] >= 1
  /\ writes # <<>>


\* the text runs getSafeText reads and applyTranslations writes for the
\* paragraph of array position p, as a set
RunSet(p) == {RunsOf(p)[k] : k \in 1..Len(RunsOf(p))}

\* C34 as stated: the text runs read and written for one paragraph id and
\* those read and written for another are disjoint, also when one paragraph
\* element is nested inside the other.
C34_Original ==
  pc \notin {"idle", "loadFailed"} =>
    \A i, j \in 1..Len(paragraphNodes) :
       i # j => RunSet(i) \cap RunSet(j) = {}

\* what holds of the code: two paragraphs share a text run exactly when one
\* lies inside the other and the inner one has a run; then every run of the
\* inner paragraph is a run of the outer one too
C34_SharedExactlyWhenNested ==
  pc \notin {"idle", "loadFailed"} =>
    \A i, j \in 1..Len(paragraphNodes) :
       i # j =>
         /\ RunSet(i) \cap RunSet(j) # {}
              <=> \/ InsideOrSelf(Loaded, i, j) /\ RunSet(j) # {}
                  \/ InsideOrSelf(Loaded, j, i) /\ RunSet(i) # {}
         /\ InsideOrSelf(Loaded, i, j) => RunSet(j) \subseteq RunSet(i)

\* both an outer and an inner paragraph gave an item read from the same text
\* run, both got a translation, and the run was written for each of them
C34_Witness ==
  /\ Reassembled
  /\ \E a, b \in 1..Len(translationMap) :
        /\ translationMap[a].key # translationMap[b].key
        /\ translationMap[a].val # <<>>
        /\ translationMap[b].val # <<>>
        /\ translationMap[a].key + 1 \in 1..Len(paragraphNodes)
        /\ translationMap[b].key + 1 \in 1..Len(paragraphNodes)
        /\ RunSet(translationMap[a].key + 1)
             \cap RunSet(translationMap[b].key + 1) # {}
        /\ \E x, y \in 1..Len(itemsToTranslate) :
              /\ itemsToTranslate[x].id = translationMap[a].key
              /\ itemsToTranslate[y].id = translationMap[b].key

=============================================================================
